---- MODULE Spec2Model ----
(***************************************************************************)
(* NWChem input generation of ccinput (ccinput/packages/nwchem.py).        *)
(*                                                                         *)
(* NWChemCalculation.__init__ runs a fixed pipeline over a calculation     *)
(* request: handle_tasks, handle_solvation, handle_specifications,         *)
(* handle_xyz, handle_basis_sets, close_blocks, create_input_file.  The    *)
(* buffers are Python strings; they are modelled as TLA+ strings and the   *)
(* string operations (find, replace, split, strip, the whitelist filter,   *)
(* the regular expression of handle_specifications) are computed           *)
(* character by character.                                                 *)
(***************************************************************************)
EXTENDS Integers, Sequences, FiniteSets, TLC

VARIABLES
    calc,      \* the caller's calculation request (self.calc is an alias of it)
    calc0,     \* the request as the caller built it (history, for frame claims)
    self,      \* the NWChemCalculation object's fields
    pc,        \* position in __init__
    raised,    \* exception that left __init__, "" when none
    files,     \* files written to the working directory (names)
    runs,      \* constructions made on this request
    docs       \* documents the completed constructions returned, in order

vars == <<calc, calc0, self, pc, raised, files, runs, docs>>

-----------------------------------------------------------------------------
(* Python string operations *)

NL == "\n"

Ch(s, i) == SubSeq(s, i, i)

From(s, i) == SubSeq(s, i, Len(s))

StartsWith(s, p) == Len(p) <= Len(s) /\ SubSeq(s, 1, Len(p)) = p

EndsWith(s, p) == Len(p) <= Len(s) /\ SubSeq(s, Len(s) - Len(p) + 1, Len(s)) = p

RECURSIVE FindFrom(_, _, _)
\* str.find from position i (1-based); 0 when absent.  The scan advances a
\* window of 16 positions at a time and returns the least match in it.
FindFrom(s, sub, i) ==
    LET last == Len(s) - Len(sub) + 1
        to   == IF i + 15 < last THEN i + 15 ELSE last
        hits == {j \in i..to : SubSeq(s, j, j + Len(sub) - 1) = sub}
    IN  IF i > last THEN 0
        ELSE IF hits # {} THEN CHOOSE j \in hits : \A k \in hits : j <= k
        ELSE FindFrom(s, sub, i + 16)

Find(s, sub) == FindFrom(s, sub, 1)

\* the "in" operator on strings
Contains(s, sub) == Find(s, sub) # 0

RECURSIVE Replace(_, _, _)
\* str.replace: every non-overlapping occurrence, left to right
Replace(s, old, new) ==
    LET i == Find(s, old) IN
    IF i = 0 THEN s
    ELSE SubSeq(s, 1, i - 1) \o new \o Replace(From(s, i + Len(old)), old, new)

RECURSIVE Count(_, _)
\* str.count: non-overlapping occurrences
Count(s, sub) ==
    LET i == Find(s, sub) IN
    IF i = 0 THEN 0 ELSE 1 + Count(From(s, i + Len(sub)), sub)

RECURSIVE Split(_, _)
\* str.split(sep) for a one-character separator: the fields left of a
\* separator followed by the fields right of it (the separator nearest to the
\* middle of the string is taken)
Split(s, sep) ==
    LET hits == {i \in 1..Len(s) : Ch(s, i) = sep}
        mid  == (Len(s) + 1) \div 2
        dist(i) == IF i < mid THEN mid - i ELSE i - mid
    IN  IF hits = {} THEN <<s>>
        ELSE LET i == CHOOSE i \in hits : \A j \in hits :
                          dist(i) < dist(j) \/ (dist(i) = dist(j) /\ i <= j)
             IN  Split(SubSeq(s, 1, i - 1), sep) \o Split(From(s, i + 1), sep)

RECURSIVE Join(_, _)
\* sep.join(list)
Join(list, sep) ==
    IF Len(list) = 0 THEN ""
    ELSE IF Len(list) = 1 THEN list[1]
    ELSE Join(SubSeq(list, 1, Len(list) \div 2), sep) \o sep
         \o Join(SubSeq(list, Len(list) \div 2 + 1, Len(list)), sep)

Whitespace == {" ", "\n", "\t", "\r"}

RECURSIVE LStrip(_)
LStrip(s) ==
    IF Len(s) > 0 /\ Ch(s, 1) \in Whitespace THEN LStrip(From(s, 2)) ELSE s

RECURSIVE RStrip(_)
RStrip(s) ==
    IF Len(s) > 0 /\ Ch(s, Len(s)) \in Whitespace
    THEN RStrip(SubSeq(s, 1, Len(s) - 1)) ELSE s

\* str.strip()
Strip(s) == RStrip(LStrip(s))

\* str.split() with no separator, first field only (a, *_ = line.split())
FirstField(line) ==
    LET t == LStrip(line)
        ends == {i \in 1..Len(t) : Ch(t, i) \in Whitespace}
    IN  IF ends = {} THEN t
        ELSE SubSeq(t, 1, (CHOOSE i \in ends : \A j \in ends : i <= j) - 1)

UpperCase == "ABCDEFGHIJKLMNOPQRSTUVWXYZ"
LowerCase == "abcdefghijklmnopqrstuvwxyz"

UpperToLower ==
    [c \in {Ch(UpperCase, i) : i \in 1..Len(UpperCase)} |->
        Ch(LowerCase, Find(UpperCase, c))]

LowerCh(c) == IF c \in DOMAIN UpperToLower THEN UpperToLower[c] ELSE c

RECURSIVE Lower(_)
\* str.lower(), character by character (the string is halved at each step)
Lower(s) ==
    IF Len(s) = 0 THEN ""
    ELSE IF Len(s) = 1 THEN LowerCh(s)
    ELSE Lower(SubSeq(s, 1, Len(s) \div 2)) \o Lower(From(s, Len(s) \div 2 + 1))

\* greatest position <= i holding character c; 0 when none
LastIndex(s, c, i) ==
    LET hits == {j \in 1..i : Ch(s, j) = c}
    IN  IF hits = {} THEN 0 ELSE CHOOSE j \in hits : \A k \in hits : k <= j

-----------------------------------------------------------------------------
(* NWChemCalculation.clean and separate_lines *)

WHITELIST_CHARS ==
    "0123456789abcdefghijklmnopqrstuvwxyzABCDEFGHIJKLMNOPQRSTUVWXYZ/()=-,._ "

WHITELIST == {Ch(WHITELIST_CHARS, i) : i \in 1..Len(WHITELIST_CHARS)}

RECURSIVE clean(_)
\* the characters of s that are in WHITELIST, in order (the string is halved
\* at each step)
clean(s) ==
    IF Len(s) = 0 THEN ""
    ELSE IF Len(s) = 1 THEN (IF s \in WHITELIST THEN s ELSE "")
    ELSE clean(SubSeq(s, 1, Len(s) \div 2)) \o clean(From(s, Len(s) \div 2 + 1))

RECURSIVE CleanLines(_)
CleanLines(lines) ==
    IF Len(lines) = 0 THEN <<>>
    ELSE (IF Strip(lines[1]) # "" THEN <<clean(Strip(Lower(lines[1])))>> ELSE <<>>)
         \o CleanLines(Tail(lines))

separate_lines(text) == Join(CleanLines(Split(text, ";")), NL)

-----------------------------------------------------------------------------
(* Collaborators outside nwchem.py: tables and helpers of ccinput.constants, *)
(* ccinput.utilities, the Constraint class and basis_set_exchange.           *)

\* CalcType members; KEYWORDS has no entry for the last two
CalcTypes == {"OPT", "CONSTR_OPT", "TS", "FREQ", "NMR", "SP", "OPTFREQ", "MEP",
              "UVVIS", "MO"}

\* NWChemCalculation.KEYWORDS
KEYWORDS(type) ==
    CASE type = "OPT"        -> <<"optimize">>
      [] type = "CONSTR_OPT" -> <<"optimize">>
      [] type = "TS"         -> <<"saddle">>
      [] type = "FREQ"       -> <<"freq">>
      [] type = "NMR"        -> <<"property">>
      [] type = "SP"         -> <<"energy">>
      [] type = "OPTFREQ"    -> <<"optimize", "freq">>
      [] type = "MEP"        -> <<"neb ignore">>

InKEYWORDS(type) ==
    type \in {"OPT", "CONSTR_OPT", "TS", "FREQ", "NMR", "SP", "OPTFREQ", "MEP"}

\* SOFTWARE_MULTIPLICITY["nwchem"]: multiplicity -> name; "" stands for KeyError
SOFTWARE_MULTIPLICITY(m) ==
    CASE m = 1 -> "singlet" [] m = 2 -> "doublet" [] m = 3 -> "triplet"
      [] OTHER -> ""

\* ATOMIC_NUMBER: element symbol -> atomic number; 0 stands for KeyError
ATOMIC_NUMBER(el) ==
    CASE el = "H" -> 1 [] el = "C" -> 6 [] el = "O" -> 8 [] el = "Zn" -> 30
      [] el = "I" -> 53 [] OTHER -> 0

\* LOWERCASE_ATOMIC_SYMBOLS: lower-case symbol -> symbol; "" stands for absent
LOWERCASE_ATOMIC_SYMBOLS(el) ==
    CASE el = "h" -> "H" [] el = "c" -> "C" [] el = "o" -> "O" [] el = "zn" -> "Zn"
      [] el = "i" -> "I" [] OTHER -> ""

\* utilities.get_basis_set(name, "nwchem"): the synonym table's NWChem keyword
get_basis_set(name) ==
    LET n == Lower(Strip(name)) IN
    CASE n = "" -> ""
      [] n \in {"6-31g", "631g"} -> "6-31G"
      [] n \in {"def2-svp", "def2svp"} -> "Def2-SVP"
      [] OTHER -> name

\* utilities.get_solvent(name, "nwchem", solvation_model): the solvent keyword
get_solvent(name) ==
    LET n == Lower(Strip(name)) IN
    CASE n \in {"water", "h2o"} -> "water"
      [] n \in {"methanol", "meoh"} -> "methanol"
      [] OTHER -> n

\* utilities.clean_xyz: one atom per line, blank lines and outer blanks dropped
RECURSIVE StripLines(_)
StripLines(lines) ==
    IF Len(lines) = 0 THEN <<>>
    ELSE (IF Strip(lines[1]) = "" THEN <<>> ELSE <<Strip(lines[1])>>)
         \o StripLines(Tail(lines))

clean_xyz(xyz) == Join(StripLines(Split(xyz, NL)), NL)

\* Constraint.to_nwchem: one line of zcoord syntax per constraint
RECURSIVE JoinIds(_)
JoinIds(ids) ==
    IF Len(ids) = 0 THEN "" ELSE " " \o ToString(ids[1]) \o JoinIds(Tail(ids))

to_nwchem(constraint) ==
    (CASE Len(constraint.ids) = 2 -> " bond"
       [] Len(constraint.ids) = 3 -> " angle"
       [] OTHER -> " torsion")
    \o JoinIds(constraint.ids) \o " constant \n"

\* basis_set_exchange.get_basis(keyword, fmt="nwchem", elements=[n], ...):
\* the database's text, or "" for a keyword or element it does not hold
\* (the call raises, and the bare except of parse_custom_basis_set takes over)
get_basis(bs_keyword, el_num) ==
    LET k == Lower(bs_keyword) IN
    CASE k = "def2-svp" /\ el_num = 53 ->
           "BASIS \"ao basis\" SPHERICAL PRINT\nI S\n 1.0 1.0\nEND\nECP\nI nelec 28\nI ul\nEND\n"
      [] k = "def2-svp" /\ el_num = 30 ->
           "BASIS \"ao basis\" SPHERICAL PRINT\nZn S\n 2.0 1.0\nEND\n"
      [] k = "def2-svp" /\ el_num \in {1, 6, 8} ->
           "BASIS \"ao basis\" SPHERICAL PRINT\n#BASIS SET\nX S\n 3.0 1.0\nEND\n"
      [] k = "sto-3g" /\ el_num \in {1, 6, 8} ->
           "BASIS \"ao basis\" SPHERICAL PRINT\nX S\n 0.5 1.0\nEND\n"
      [] OTHER -> ""

-----------------------------------------------------------------------------
(* The request.  calc holds the fields of the Calculation object and of its  *)
(* Parameters object that nwchem.py reads (calc.parameters.x is calc.x here). *)
(* custom_basis_sets is a dict, kept as its items in insertion order; a       *)
(* request built without overrides may also carry the empty string.          *)

EmptyDict == [is_str |-> FALSE, items |-> <<>>]
EmptyStr  == [is_str |-> TRUE, items |-> <<>>]
Dict(items) == [is_str |-> FALSE, items |-> items]

\* len(custom_basis_sets)
PyLen(d) == Len(d.items)

\* custom_basis_sets != ''
NotEmptyStr(d) == ~d.is_str

\* a in custom_basis_sets
HasKey(d, k) == \E i \in 1..Len(d.items) : d.items[i][1] = k

-----------------------------------------------------------------------------
(* __init__, lines 70-98: the fields' initial values, the NWChem names of    *)
(* the theory levels, the check of the calculation type.                     *)

\* lines 84-92
NWChemTheoryLevel(c) ==
    IF c.theory_level = "hf" \/ c.method = "uhf" \/ c.method = "rhf" THEN "scf"
    ELSE IF c.theory_level = "cc" THEN "ccsd"
    ELSE c.theory_level

\* self.calc = calc: the assignments to self.calc.x are assignments to calc.x
AliasedRequest(c) ==
    [c EXCEPT !.mem = c.mem \o " mb", !.theory_level = NWChemTheoryLevel(c)]

NewObject(c) ==
    [ tasks             |-> "",
      method_block      |-> c.theory_level,
      calculation_block |-> "",
      additional_block  |-> "",
      has_basis_set     |-> FALSE,
      basis_set         |-> "",
      solvation_radii   |-> <<>>,
      xyz_structure     |-> "",
      input_file        |-> "" ]

Ok(st)        == [st |-> st, err |-> "", file |-> ""]
Raise(st, e)  == [st |-> st, err |-> e, file |-> ""]

-----------------------------------------------------------------------------
(* handle_tasks *)

RECURSIVE TaskLines(_, _)
TaskLines(keyword, words) ==
    IF Len(words) = 0 THEN ""
    ELSE "task " \o keyword \o " " \o words[1] \o " \n"
         \o TaskLines(keyword, Tail(words))

TaskKeyword(c) == IF c.theory_level = "ccsd" THEN c.method ELSE c.theory_level

MethodPreamble(c) ==
    CASE c.theory_level = "scf" ->
           "\n" \o (IF c.method # "hf" THEN c.method \o " \n" ELSE "")
                \o SOFTWARE_MULTIPLICITY(c.multiplicity) \o " \n"
      [] c.theory_level = "dft" ->
           "\n            xc " \o c.method
           \o "\n            mult " \o ToString(c.multiplicity)
           \o "\n            "
           \o (IF c.d3 THEN "disp vdw 3 \n"
               ELSE IF c.d3bj THEN "disp vdw 4 \n" ELSE "")
      [] c.theory_level \in {"mp2", "ccsd"} -> "\n"
      [] OTHER -> ""

handle_tasks(c, st) ==
    LET st1 == [st EXCEPT !.tasks = @ \o TaskLines(TaskKeyword(c), KEYWORDS(c.type))]
    IN  \* line 133: the lookup fails before the method block is extended
        IF c.theory_level = "scf" /\ SOFTWARE_MULTIPLICITY(c.multiplicity) = ""
        THEN Raise(st1, "KeyError")
        ELSE Ok([st1 EXCEPT
                   !.method_block = @ \o MethodPreamble(c),
                   !.calculation_block =
                       @ \o (IF c.type = "NMR" THEN " \n property \n shielding \n"
                             ELSE "")])

-----------------------------------------------------------------------------
(* handle_solvation and parse_custom_solvation_radii *)

Digits == {"0", "1", "2", "3", "4", "5", "6", "7", "8", "9"}

\* float(rad) succeeds: decimal notation, blanks around it allowed
IsFloat(rad) ==
    LET t == Strip(rad)
        u == IF Len(t) > 0 /\ Ch(t, 1) \in {"+", "-"} THEN From(t, 2) ELSE t
    IN  /\ \E i \in 1..Len(u) : Ch(u, i) \in Digits
        /\ \A i \in 1..Len(u) : Ch(u, i) \in Digits \cup {"."}
        /\ Count(u, ".") <= 1

\* str(float(rad)) for the decimal notations above without a sign
FloatStr(rad) ==
    LET t == Strip(rad) IN
    IF Contains(t, ".") THEN (IF EndsWith(t, ".") THEN t \o "0" ELSE t)
    ELSE t \o ".0"

\* self.solvation_radii[_element] = _rad
DictSet(items, k, v) ==
    IF \E i \in 1..Len(items) : items[i][1] = k
    THEN [i \in 1..Len(items) |-> IF items[i][1] = k THEN <<k, v>> ELSE items[i]]
    ELSE Append(items, <<k, v>>)

RECURSIVE ParseRadii(_, _)
\* the loop of parse_custom_solvation_radii over the ";" fields still to read;
\* the result is the dict, or the exception that ends the loop
ParseRadii(fields, radii) ==
    IF Len(fields) = 0 THEN [radii |-> radii, err |-> ""]
    ELSE LET radius == fields[1]
             sradius == Split(radius, "=")
         IN  IF Strip(radius) = "" THEN ParseRadii(Tail(fields), radii)
             ELSE IF Len(sradius) # 2 THEN [radii |-> radii, err |-> "InvalidParameter"]
             ELSE IF LOWERCASE_ATOMIC_SYMBOLS(sradius[1]) = ""
                  THEN [radii |-> radii, err |-> "InvalidParameter"]
             ELSE IF ~IsFloat(sradius[2]) THEN [radii |-> radii, err |-> "InvalidParameter"]
             ELSE ParseRadii(Tail(fields),
                             DictSet(radii, LOWERCASE_ATOMIC_SYMBOLS(sradius[1]),
                                     FloatStr(sradius[2])))

parse_custom_solvation_radii(c, st) ==
    ParseRadii(Split(c.custom_solvation_radii, ";"), st.solvation_radii)

\* line 310
HasSolvent(c) == Lower(c.solvent) \notin {"", "vacuum"}

\* variant of line 324 that also lets the Hartree-Fock level through
SmdNeedsOtherTheory_Scf(c) == c.theory_level \notin {"dft", "scf"}

\* line 324: the SMD model needs a density-functional theory level
SmdNeedsOtherTheory(c) == c.theory_level # "dft"

handle_solvation(c, st) ==
    IF ~HasSolvent(c) THEN Ok(st)
    ELSE
    LET solvation_model == Lower(c.solvation_model)
        st1 == [st EXCEPT !.additional_block =
                   @ \o "\n cosmo \n minbem 3 \n ificos 1 \n solvent "
                     \o get_solvent(c.solvent) \o " \n"]
        st2 == IF solvation_model \in {"smd", "smd18"}
               THEN [st1 EXCEPT !.additional_block = @ \o "do_cosmo_smd \n"]
               ELSE st1
        parsed == parse_custom_solvation_radii(c, st2)
        st3 == [st2 EXCEPT !.solvation_radii = parsed.radii]
        fname == c.name \o "_sol.parameters"
    IN  IF solvation_model \in {"smd", "smd18"} /\ SmdNeedsOtherTheory(c)
            THEN Raise(st2, "UnimplementedError")
        ELSE IF solvation_model \notin {"cosmo", "smd", "smd18"}
            THEN Raise(st1, "UnimplementedError")
        ELSE IF c.solvation_radii \notin {"", "default"}
            THEN Raise(st2, "UnimplementedError")
        ELSE IF c.custom_solvation_radii = "" THEN Ok(st2)
        ELSE IF parsed.err # "" THEN Raise(st3, parsed.err)
        ELSE [st |-> [st3 EXCEPT !.additional_block =
                         @ \o "parameters " \o fname \o " \n"],
              err |-> "", file |-> fname]

-----------------------------------------------------------------------------
(* handle_specifications *)

\* re.search(r".*\((.*)\)", spec): both ".*" are greedy, so the closing
\* parenthesis is the last one of the statement and the opening one the last
\* before it.  open = 0 when there is no match.
ParenMatch(spec) ==
    LET close == LastIndex(spec, ")", Len(spec))
        open  == IF close = 0 THEN 0 ELSE LastIndex(spec, "(", close - 1)
    IN  [open |-> open, close |-> close]

\* matched.group(1)
Command(spec) ==
    LET m == ParenMatch(spec) IN SubSeq(spec, m.open + 1, m.close - 1)

\* spec[: matched.span(1)[0] - 1]
BlockName(spec) == SubSeq(spec, 1, ParenMatch(spec).open - 1)

\* line 240: the statements that select the string method
StringDirectives == {"string", "freezing string sethod", "fsm", "freezing string"}

\* lines 236-275, one statement; acc holds the object's fields and temp
RouteStatement(c, acc, spec) ==
    LET st == acc.st
        command == Command(spec)
        block_name == BlockName(spec)
        line == command \o " \n"
        with(new) == [acc EXCEPT !.st = new]
    IN
    IF ParenMatch(spec).open = 0 THEN
        IF spec \in StringDirectives
        THEN with([st EXCEPT !.tasks = Replace(@, "neb", "string")])
        ELSE with([st EXCEPT !.additional_block = @ \o spec \o " \n"])
    ELSE IF block_name \in {"scf", "dft", "hf"} THEN
        with([st EXCEPT !.method_block = @ \o line])
    ELSE IF block_name \in {"opt", "ts"}
            /\ c.type \in {"CONSTR_OPT", "OPT", "TS", "OPTFREQ"} THEN
        with([st EXCEPT !.calculation_block =
                (IF @ = "" THEN "\n driver \n" ELSE @) \o line])
    ELSE IF block_name = "nmr" /\ c.type = "NMR" THEN
        with([st EXCEPT !.calculation_block = @ \o line])
    ELSE IF block_name = "freq" /\ c.type = "FREQ" THEN
        with([st EXCEPT !.calculation_block =
                (IF @ = "" THEN "\n freq \n" ELSE @) \o line])
    ELSE IF block_name = "freq" /\ c.type = "OPTFREQ" THEN
        [acc EXCEPT !.temp = @ \o line]
    ELSE IF block_name \in {"neb", "string", "fsm"} /\ c.type = "MEP" THEN
        with([st EXCEPT !.calculation_block =
                (IF @ = "" THEN "\n neb \n" ELSE @) \o line])
    ELSE IF block_name \in {"sol", "cosmo", "smd"} THEN
        with([st EXCEPT !.additional_block =
                Replace(@, "cosmo \n", "cosmo \n " \o command \o " \n")])
    ELSE IF block_name = "mp2" /\ c.theory_level = "mp2" THEN
        with([st EXCEPT !.method_block = @ \o line])
    ELSE IF block_name = "cc" /\ c.theory_level = "ccsd" THEN
        with([st EXCEPT !.method_block = @ \o line])
    ELSE acc

RECURSIVE RouteAll(_, _, _)
\* the for loop of line 234
RouteAll(c, acc, specs) ==
    IF Len(specs) = 0 THEN acc
    ELSE RouteAll(c, RouteStatement(c, acc, specs[1]), Tail(specs))

\* lines 230-277
RouteSpecifications(c, st) ==
    IF Strip(clean(c.specifications)) = "" THEN st
    ELSE LET s == separate_lines(c.specifications)
             acc == RouteAll(c, [st |-> st, temp |-> "\n"], Split(s, NL))
         IN  IF acc.temp # "\n"
             THEN [acc.st EXCEPT !.additional_block =
                      @ \o "\n freq " \o acc.temp \o " end \n"]
             ELSE acc.st

\* lines 278-281: a post-Hartree-Fock block with nothing in it is not written
DropBareMethodBlock(c, st) ==
    IF \/ c.theory_level = "mp2" /\ st.method_block = "mp2\n"
       \/ c.theory_level = "ccsd" /\ st.method_block = "ccsd\n"
    THEN [st EXCEPT !.method_block = ""]
    ELSE st

\* variant of line 282 that looks for another word
TasksUseString_Fsm(tasks) == Find(tasks, "fsm") # 0

\* line 282
TasksUseString(tasks) == Find(tasks, "string") # 0

\* lines 282-283
ApplyStringMethod(st) ==
    IF TasksUseString(st.tasks)
    THEN [st EXCEPT !.calculation_block = Replace(@, "neb", "string")]
    ELSE st

\* variant of line 287 that lets an empty list through
NoConstraints_Never(c) == Len(c.constraints) < 0

\* line 287
NoConstraints(c) == Len(c.constraints) = 0

RECURSIVE AllConstraints(_)
\* lines 289-291
AllConstraints(cs) ==
    IF Len(cs) = 0 THEN "" ELSE to_nwchem(cs[1]) \o AllConstraints(Tail(cs))

RECURSIVE ScanConstraints(_)
\* lines 299-301
ScanConstraints(cs) ==
    IF Len(cs) = 0 THEN ""
    ELSE (IF cs[1].scan THEN to_nwchem(cs[1]) ELSE "") \o ScanConstraints(Tail(cs))

handle_specifications(c, st) ==
    LET st1 == ApplyStringMethod(DropBareMethodBlock(c, RouteSpecifications(c, st)))
        constraints == AllConstraints(c.constraints)
        st2 == IF constraints # ""
               THEN [st1 EXCEPT !.additional_block =
                        @ \o "\n geometry adjust \n zcoord \n " \o constraints
                          \o " end \n end \n"]
               ELSE st1
    IN  IF c.type # "CONSTR_OPT" THEN Ok(st1)
        ELSE IF NoConstraints(c) THEN Raise(st1, "InvalidParameter")
        ELSE Ok([st2 EXCEPT !.additional_block = @ \o ScanConstraints(c.constraints)])

-----------------------------------------------------------------------------
(* handle_xyz *)

RECURSIVE XyzLines(_)
XyzLines(lines) ==
    IF Len(lines) = 0 THEN ""
    ELSE (IF lines[1] # "" THEN lines[1] \o "\n" ELSE "") \o XyzLines(Tail(lines))

handle_xyz(c, st) ==
    Ok([st EXCEPT !.xyz_structure = XyzLines(Split(clean_xyz(c.xyz), NL))])

-----------------------------------------------------------------------------
(* handle_basis_sets and parse_custom_basis_set *)

InSeq(x, seq) == \E i \in 1..Len(seq) : seq[i] = x

RECURSIVE UniqueAtoms(_, _)
\* lines 169-174: the elements of the geometry, in order of first appearance
UniqueAtoms(lines, unique_atoms) ==
    IF Len(lines) = 0 THEN unique_atoms
    ELSE LET a == FirstField(lines[1]) IN
         UniqueAtoms(Tail(lines),
                     IF Strip(lines[1]) = "" \/ InSeq(a, unique_atoms)
                     THEN unique_atoms ELSE Append(unique_atoms, a))

\* lines 175-176: the elements left to the default basis set
NormalAtoms(unique_atoms, custom_basis_sets) ==
    SelectSeq(unique_atoms, LAMBDA a : ~HasKey(custom_basis_sets, a))

\* variant of line 180 without the test
OverrideApplies_Always(el, unique_atoms) == TRUE

\* line 180: an override counts only for an element of the geometry
OverrideApplies(el, unique_atoms) == InSeq(el, unique_atoms)

\* re.search(start + "(.*?)END", bs, re.DOTALL): [found, group]
Between(bs, start) ==
    LET i == Find(bs, start)
        j == IF i = 0 THEN 0 ELSE FindFrom(bs, "END", i + Len(start))
    IN  IF j = 0 THEN [found |-> FALSE, group |-> ""]
        ELSE [found |-> TRUE, group |-> SubSeq(bs, i + Len(start), j - 1)]

RECURSIVE CollectOverrides(_, _, _)
\* the loop of lines 179-209 over the items still to read
CollectOverrides(items, unique_atoms, acc) ==
    IF Len(items) = 0 \/ acc.err # "" THEN acc
    ELSE
    LET el == items[1][1]
        bs_keyword == items[1][2]
        el_num == ATOMIC_NUMBER(el)
        bs == get_basis(bs_keyword, el_num)
        matched_ECP == Between(bs, "ECP\n")
        matched_bs == Between(bs, "BASIS \"ao basis\" SPHERICAL PRINT\n")
        acc1 == [acc EXCEPT !.custom_atoms = Append(@, el)]
    IN  IF ~OverrideApplies(el, unique_atoms)
            THEN CollectOverrides(Tail(items), unique_atoms, acc)
        ELSE IF el_num = 0
            THEN [acc1 EXCEPT !.err = "InvalidParameter"]
        ELSE IF bs = ""
            THEN CollectOverrides(Tail(items), unique_atoms,
                    [acc1 EXCEPT !.not_recoginzed_bs = Append(@, <<el, bs_keyword>>)])
        ELSE IF ~matched_bs.found
            THEN [acc1 EXCEPT !.err = "AttributeError"]
        ELSE CollectOverrides(Tail(items), unique_atoms,
                [acc1 EXCEPT
                    !.to_append_ecp = IF matched_ECP.found
                                      THEN Append(@, matched_ECP.group) ELSE @,
                    !.to_append_bs = Append(@, matched_bs.group)])

RECURSIVE LibraryLines(_)
\* lines 218-219
LibraryLines(not_recoginzed_bs) ==
    IF Len(not_recoginzed_bs) = 0 THEN ""
    ELSE not_recoginzed_bs[1][1] \o " library " \o not_recoginzed_bs[1][2] \o " \n"
         \o LibraryLines(Tail(not_recoginzed_bs))

DefaultBasisBlock(basis_set) == "basis \n * library " \o basis_set \o " \n end"

parse_custom_basis_set(c, st, base_bs) ==
    LET unique_atoms == UniqueAtoms(Split(c.xyz, NL), <<>>)
        normal_atoms == NormalAtoms(unique_atoms, c.custom_basis_sets)
        acc == CollectOverrides(c.custom_basis_sets.items, unique_atoms,
                   [custom_atoms |-> <<>>, to_append_bs |-> <<>>,
                    to_append_ecp |-> <<>>, not_recoginzed_bs |-> <<>>, err |-> ""])
        \* lines 210-219: self.basis_set is assigned only with a custom atom
        head == "basis spherical \n " \o Join(acc.to_append_bs, NL) \o " \n "
                \o (IF Len(normal_atoms) > 0
                    THEN "* library " \o base_bs \o " except "
                         \o Join(acc.custom_atoms, " ") \o " \n"
                    ELSE "")
                \o LibraryLines(acc.not_recoginzed_bs)
        \* lines 220-223: += on the attribute never assigned raises, and the
        \* bare except writes the default block
        body == IF Len(acc.custom_atoms) > 0 \/ st.has_basis_set
                THEN (IF Len(acc.custom_atoms) > 0 THEN head ELSE st.basis_set) \o "end"
                ELSE DefaultBasisBlock(base_bs)
        ecp == IF Len(acc.to_append_ecp) > 0
               THEN "\n \n ecp \n" \o Join(acc.to_append_ecp, NL) \o " end"
               ELSE ""
    IN  IF acc.err # "" THEN Raise(st, acc.err)
        ELSE Ok([st EXCEPT !.has_basis_set = TRUE, !.basis_set = body \o ecp])

handle_basis_sets(c, st) ==
    LET basis_set == get_basis_set(c.basis_set) IN
    IF basis_set # "" /\ PyLen(c.custom_basis_sets) = 0
        THEN Ok([st EXCEPT !.has_basis_set = TRUE,
                           !.basis_set = DefaultBasisBlock(basis_set)])
    ELSE IF NotEmptyStr(c.custom_basis_sets)
        THEN parse_custom_basis_set(c, st, basis_set)
    ELSE Raise(st, "MissingParameter")

-----------------------------------------------------------------------------
(* close_blocks *)

\* variant that looks for the marker at the end of the block only
LacksEnd_AtEnd(block) == ~EndsWith(block, "end \n")

\* "end \n" not in block
LacksEnd(block) == ~Contains(block, "end \n")

close_method(block) ==
    IF LacksEnd(block) /\ block # "" THEN block \o " end \n" ELSE block

close_calculation(block) ==
    IF LacksEnd(block) /\ block # "" THEN block \o " end \n" ELSE block

close_additional(block) ==
    IF LacksEnd(block) /\ clean(block) # "" THEN block \o "end \n" ELSE block

close_blocks(c, st) ==
    Ok([st EXCEPT !.method_block = close_method(@),
                  !.calculation_block = close_calculation(@),
                  !.additional_block = close_additional(@)])

-----------------------------------------------------------------------------
(* create_input_file *)

\* TEMPLATE.format(...)
TEMPLATE(header, name, mem, charge, xyz, basis, method, calculation, additional, tasks) ==
    "TITLE \"" \o header \o "\"\n    start " \o name \o "\n    memory total "
    \o mem \o "\n    charge " \o charge \o "\n\n    geometry units angstroms\n    "
    \o xyz \o "end\n\n    " \o basis \o "\n\n    " \o method \o calculation
    \o additional \o "\n    " \o tasks \o "\n    "

\* [i.strip() for i in lines]
StripEach(lines) == [i \in 1..Len(lines) |-> Strip(lines[i])]

create_input_file(c, st) ==
    LET raw == TEMPLATE(c.header, c.name, c.mem, ToString(c.charge),
                        st.xyz_structure, st.basis_set, st.method_block,
                        st.calculation_block, st.additional_block, st.tasks)
    IN  Ok([st EXCEPT !.input_file = Join(StripEach(Split(raw, NL)), NL)])

-----------------------------------------------------------------------------
(* Requests the model is run on *)

MaxStatements == 2
MaxRuns == 2
MaxFragments == 2

\* theory level, method, dispersion flags and multiplicity that go together
Levels ==
    { [theory_level |-> "hf",  method |-> "hf",    d3 |-> FALSE, d3bj |-> FALSE, multiplicity |-> 1],
      [theory_level |-> "hf",  method |-> "uhf",   d3 |-> FALSE, d3bj |-> FALSE, multiplicity |-> 2],
      [theory_level |-> "hf",  method |-> "hf",    d3 |-> FALSE, d3bj |-> FALSE, multiplicity |-> 9],
      [theory_level |-> "dft", method |-> "b3lyp", d3 |-> FALSE, d3bj |-> FALSE, multiplicity |-> 1],
      [theory_level |-> "dft", method |-> "pbe0",  d3 |-> TRUE,  d3bj |-> FALSE, multiplicity |-> 3],
      [theory_level |-> "mp2", method |-> "mp2",   d3 |-> FALSE, d3bj |-> FALSE, multiplicity |-> 1],
      [theory_level |-> "cc",  method |-> "ccsd",  d3 |-> FALSE, d3bj |-> FALSE, multiplicity |-> 1] }

DftLevel == [theory_level |-> "dft", method |-> "b3lyp", d3 |-> FALSE, d3bj |-> TRUE, multiplicity |-> 1]

\* solvent, solvation model, radii policy, custom radii
NoSolvation ==
    [solvent |-> "", solvation_model |-> "", solvation_radii |-> "",
     custom_solvation_radii |-> ""]

Solvations ==
    {NoSolvation, [NoSolvation EXCEPT !.solvent = "Vacuum"]} \cup
    [ solvent : {"Water"},
      solvation_model : {"cosmo", "SMD", "pcm"},
      solvation_radii : {"", "bondi"},
      custom_solvation_radii : {"", "h=1.2;o=1;", "h=1.2; o=1", "h=big"} ]

Bond(scan)  == [ids |-> <<1, 2>>, scan |-> scan]
Angle(scan) == [ids |-> <<1, 2, 3>>, scan |-> scan]

ConstraintLists ==
    {<<>>, <<Bond(FALSE)>>, <<Bond(TRUE)>>, <<Bond(FALSE), Angle(TRUE)>>}

\* constraints are read for constrained optimisations only
ConstraintsFor(type) == IF type = "CONSTR_OPT" THEN ConstraintLists ELSE {<<>>}

Geometries == {"C 0 0 0\nH 0 0 1\n\nH 0 1 0\n", " I 0 0 0\nH 0 0 1.6", "Xx 0 0 0\n"}

BasisNames == {"", "6-31G", "def2svp"}

CustomBasisSets ==
    { EmptyDict, EmptyStr,
      Dict(<<<<"Zn", "Def2-SVP">>>>),
      Dict(<<<<"I", "Def2-SVP">>>>),
      Dict(<<<<"H", "STO-3G">>, <<"Zn", "Def2-SVP">>>>),
      Dict(<<<<"O", "SDD">>, <<"H", "SDD">>>>),
      Dict(<<<<"Xx", "STO-3G">>, <<"C", "Def2-SVP">>>>) }

\* the statements specification strings are made of
Statements ==
    { "String", "print low", "scf(Direct)", "dft(grid fine)",
      "opt(maxiter 5)", "freq(temp 1 298)", "neb(nbeads 10)", "sol(lineq 1)",
      "mp2(freeze atomic)", "cc(freeze)", "nmr(!)", "foo(bar)", "scf(vectors end) " }

PathStatements ==
    { "string", " FSM", "Freezing String", "print low", "neb(nbeads 10)",
      "string(stepsize 1)", "fsm(neb)", "freezing string sethod" }

RECURSIVE SpecStrings(_, _)
\* the strings of at most n statements, joined with ";"
SpecStrings(stmts, n) ==
    IF n = 0 THEN {""}
    ELSE LET shorter == SpecStrings(stmts, n - 1) IN
         shorter \cup {IF t = "" THEN s ELSE t \o ";" \o s : t \in shorter, s \in stmts}

Request(type, level, solvation, constraints, specifications, xyz, basis_set, cbs) ==
    [ type |-> type,
      theory_level |-> level.theory_level, method |-> level.method,
      d3 |-> level.d3, d3bj |-> level.d3bj, multiplicity |-> level.multiplicity,
      solvent |-> solvation.solvent, solvation_model |-> solvation.solvation_model,
      solvation_radii |-> solvation.solvation_radii,
      custom_solvation_radii |-> solvation.custom_solvation_radii,
      constraints |-> constraints, specifications |-> specifications,
      xyz |-> xyz, basis_set |-> basis_set, custom_basis_sets |-> cbs,
      mem |-> "1000", charge |-> 0, name |-> "calc", header |-> "File created by ccinput" ]

-----------------------------------------------------------------------------
(* __init__ as a state machine: pc names the call about to be made; an       *)
(* exception leaves pc where it was raised and fills raised.                 *)

NoObject ==
    [ tasks |-> "", method_block |-> "", calculation_block |-> "",
      additional_block |-> "", has_basis_set |-> FALSE, basis_set |-> "",
      solvation_radii |-> <<>>, xyz_structure |-> "", input_file |-> "" ]

InitWith(requests) ==
    /\ calc \in requests
    /\ calc0 = calc
    /\ self = NoObject
    /\ pc = "start"
    /\ raised = ""
    /\ files = {}
    /\ runs = 0
    /\ docs = <<>>

\* lines 70-98
Construct ==
    /\ pc = "start" /\ raised = ""
    /\ calc' = AliasedRequest(calc)
    /\ self' = NewObject(calc')
    /\ runs' = runs + 1
    /\ IF InKEYWORDS(calc.type)
       THEN pc' = "handle_tasks" /\ raised' = ""
       ELSE pc' = "start" /\ raised' = "ImpossibleCalculation"
    /\ UNCHANGED <<calc0, files, docs>>

\* one call of lines 99-105: r is what the call returns
Call(at, r, next) ==
    /\ pc = at /\ raised = ""
    /\ self' = r.st
    /\ raised' = r.err
    /\ pc' = IF r.err = "" THEN next ELSE at
    /\ files' = IF r.file = "" THEN files ELSE files \cup {r.file}
    /\ UNCHANGED <<calc, calc0, runs, docs>>

HandleTasks == Call("handle_tasks", handle_tasks(calc, self), "handle_solvation")

HandleSolvation ==
    Call("handle_solvation", handle_solvation(calc, self), "handle_specifications")

HandleSpecifications ==
    Call("handle_specifications", handle_specifications(calc, self), "handle_xyz")

HandleXyz == Call("handle_xyz", handle_xyz(calc, self), "handle_basis_sets")

HandleBasisSets ==
    Call("handle_basis_sets", handle_basis_sets(calc, self), "close_blocks")

CloseBlocks == Call("close_blocks", close_blocks(calc, self), "create_input_file")

\* create_input_file, and the caller reading the output property
CreateInputFile ==
    /\ pc = "create_input_file" /\ raised = ""
    /\ self' = create_input_file(calc, self).st
    /\ docs' = Append(docs, self'.input_file)
    /\ pc' = "done"
    /\ UNCHANGED <<calc, calc0, raised, files, runs>>

\* the caller builds another NWChemCalculation from the same request
Rerun ==
    /\ (pc = "done" \/ raised # "") /\ runs < MaxRuns
    /\ pc' = "start"
    /\ raised' = ""
    /\ self' = NoObject
    /\ UNCHANGED <<calc, calc0, files, runs, docs>>

\* close_blocks applied to buffers it has already closed
CloseBlocksAgain ==
    /\ pc = "create_input_file" /\ raised = ""
    /\ self' = close_blocks(calc, self).st
    /\ pc' = "closed_twice"
    /\ UNCHANGED <<calc, calc0, raised, files, runs, docs>>

Next ==
    \/ Construct
    \/ HandleTasks
    \/ HandleSolvation
    \/ HandleSpecifications
    \/ HandleXyz
    \/ HandleBasisSets
    \/ CloseBlocks
    \/ CreateInputFile

-----------------------------------------------------------------------------
(* Specifications *)

PlainGeometry == "C 0 0 0\nH 0 0 1\n\nH 0 1 0\n"

\* every calculation type, level and solvation setting
SolvationRequests ==
    UNION { { Request(t, l, sv, cs, sp, PlainGeometry, b, EmptyDict) :
                l \in Levels, sv \in Solvations, cs \in ConstraintsFor(t),
                sp \in {"", "sol(lineq 1)"}, b \in {"", "6-31G"} } :
            t \in CalcTypes }

\* every geometry, basis set name and set of overrides
BasisRequests ==
    { Request(t, DftLevel, sv, <<>>, "", xyz, b, cbs) :
        t \in {"SP", "FREQ"},
        sv \in {NoSolvation,
                [solvent |-> "methanol", solvation_model |-> "cosmo",
                 solvation_radii |-> "default", custom_solvation_radii |-> "c=1.9"]},
        xyz \in Geometries, b \in BasisNames, cbs \in CustomBasisSets }

\* every specification string of at most n statements
RoutingRequests(n) ==
    UNION { { Request(t, l, sv, cs, sp, PlainGeometry, "6-31G", EmptyDict) :
                l \in {x \in Levels : x.method \in {"hf", "b3lyp", "mp2", "ccsd"}},
                sv \in {NoSolvation,
                        [solvent |-> "water", solvation_model |-> "cosmo",
                         solvation_radii |-> "", custom_solvation_radii |-> ""]},
                cs \in (IF t = "CONSTR_OPT" THEN {<<Bond(FALSE), Angle(TRUE)>>}
                        ELSE {<<>>}),
                sp \in SpecStrings(Statements, n) } :
            t \in CalcTypes \ {"MO"} }

\* minimum-energy-path requests, longer specification strings
PathRequests(n) ==
    { Request("MEP", l, NoSolvation, <<>>, sp, PlainGeometry, "6-31G", EmptyDict) :
        l \in {x \in Levels : x.method \in {"b3lyp", "ccsd"}},
        sp \in SpecStrings(PathStatements, n) }

Init == InitWith(SolvationRequests \cup BasisRequests)

Spec == Init /\ [][Next]_vars

InitRouting == InitWith(RoutingRequests(MaxStatements))

SpecRouting == InitRouting /\ [][Next]_vars

InitPath == InitWith(PathRequests(MaxStatements + 1))

SpecPath == InitPath /\ [][Next]_vars

InitRerun == InitWith(BasisRequests)

NextRerun == Next \/ Rerun

SpecRerun == InitRerun /\ [][NextRerun]_vars

\* close_blocks as a function of the three buffers
Fragments == {"end \n", "x", " "}

RECURSIVE BufferStrings(_)
\* the concatenations of at most n fragments, and the lone line break
BufferStrings(n) ==
    IF n = 0 THEN {"", "\n"}
    ELSE LET shorter == BufferStrings(n - 1) IN
         shorter \cup {t \o f : t \in shorter \ {"\n"}, f \in Fragments}

InitClose ==
    /\ calc = Request("SP", DftLevel, NoSolvation, <<>>, "", PlainGeometry, "6-31G",
                      EmptyDict)
    /\ calc0 = calc
    /\ \E m \in BufferStrings(MaxFragments), k \in BufferStrings(MaxFragments),
          a \in BufferStrings(MaxFragments) :
          self = [NoObject EXCEPT !.method_block = m, !.calculation_block = k,
                                  !.additional_block = a]
    /\ pc = "close_blocks"
    /\ raised = ""
    /\ files = {}
    /\ runs = 1
    /\ docs = <<>>

NextClose == CloseBlocks \/ CloseBlocksAgain

SpecClose == InitClose /\ [][NextClose]_vars

-----------------------------------------------------------------------------
(* Vocabulary of the properties *)

StageNo(p) ==
    CASE p = "start" -> 0
      [] p = "handle_tasks" -> 1
      [] p = "handle_solvation" -> 2
      [] p = "handle_specifications" -> 3
      [] p = "handle_xyz" -> 4
      [] p = "handle_basis_sets" -> 5
      [] p = "close_blocks" -> 6
      [] p = "create_input_file" -> 7
      [] OTHER -> 8

\* the call named stage has returned normally in this run
Past(stage) == StageNo(pc) > StageNo(stage)

\* the call named stage raised
FailedIn(stage) == pc = stage /\ raised # ""

\* the statements handle_specifications loops over
StatementsOf(c) ==
    IF Strip(clean(c.specifications)) = "" THEN <<>>
    ELSE Split(separate_lines(c.specifications), NL)

ClosingMarker == "end \n"

OccursInGeometry(el, xyz) ==
    LET lines == Split(xyz, NL) IN
    \E i \in 1..Len(lines) : Strip(lines[i]) # "" /\ FirstField(lines[i]) = el

-----------------------------------------------------------------------------
(* C1 *)

ClosedOnceAtEnd(block) ==
    block = "" \/ (Count(block, ClosingMarker) = 1 /\ EndsWith(block, ClosingMarker))

\* C1: once close_blocks has run, each of the method, calculation and
\* additional blocks that is not empty holds exactly one closing marker, and
\* the marker is the last thing in the block.
C1_BlocksClosedOnce ==
    Past("close_blocks") =>
        /\ ClosedOnceAtEnd(self.method_block)
        /\ ClosedOnceAtEnd(self.calculation_block)
        /\ ClosedOnceAtEnd(self.additional_block)

-----------------------------------------------------------------------------
(* C2 *)

\* the buffer a blockname(arg) statement is meant for; "free" when the block
\* name is not recognised or does not apply to the request
ExpectedBuffer(c, block_name) ==
    CASE block_name \in {"scf", "dft", "hf"} -> "method_block"
      [] block_name \in {"opt", "ts"} /\ c.type \in {"CONSTR_OPT", "OPT", "TS", "OPTFREQ"}
           -> "calculation_block"
      [] block_name = "nmr" /\ c.type = "NMR" -> "calculation_block"
      [] block_name = "freq" /\ c.type = "FREQ" -> "calculation_block"
      [] block_name = "freq" /\ c.type = "OPTFREQ" -> "additional_block"
      [] block_name \in {"neb", "string", "fsm"} /\ c.type = "MEP" -> "calculation_block"
      [] block_name \in {"sol", "cosmo", "smd"} -> "additional_block"
      [] block_name = "mp2" /\ c.theory_level = "mp2" -> "method_block"
      [] block_name = "cc" /\ c.theory_level = "ccsd" -> "method_block"
      [] OTHER -> "free"

StatementKept(c, st, stmt) ==
    IF ParenMatch(stmt).open = 0
    THEN stmt \in StringDirectives \/ Contains(st.additional_block, stmt \o " \n")
    ELSE LET buffer == ExpectedBuffer(c, BlockName(stmt)) IN
         IF buffer = "free" THEN Contains(st.additional_block, stmt)
         ELSE Contains(st[buffer], Command(stmt))

\* C2: after handle_specifications every statement of the specification
\* string is in a buffer: a recognised blockname(arg) statement in the buffer
\* meant for it, any other statement in the additional block as free text.
C2_NoStatementDropped ==
    Past("handle_specifications") =>
        LET stmts == StatementsOf(calc) IN
        \A i \in 1..Len(stmts) : StatementKept(calc, self, stmts[i])

-----------------------------------------------------------------------------
(* C3 *)

\* handle_basis_sets has been called in this run
BasisSetsHandled == Past("handle_basis_sets") \/ FailedIn("handle_basis_sets")

\* C3: with no basis set name and no custom overrides, handle_basis_sets
\* raises MissingParameter and writes no basis set block.
C3_MissingBasisSetRaises ==
    (BasisSetsHandled /\ calc.basis_set = "" /\ PyLen(calc.custom_basis_sets) = 0) =>
        (raised = "MissingParameter" /\ ~self.has_basis_set)

-----------------------------------------------------------------------------
(* C4 *)

SmdRequest(c) == HasSolvent(c) /\ Lower(c.solvation_model) \in {"smd", "smd18"}

SolvationBlockWritten(c, st) ==
    /\ Contains(st.additional_block, "\n cosmo \n")
    /\ Contains(st.additional_block, "solvent " \o get_solvent(c.solvent) \o " \n")
    /\ Contains(st.additional_block, "do_cosmo_smd \n")

SolvationInDocument(c, doc) ==
    /\ Contains(doc, "\ncosmo\n")
    /\ Contains(doc, "\nsolvent " \o get_solvent(c.solvent) \o "\n")
    /\ Contains(doc, "\ndo_cosmo_smd\n")

SmdAccepted ==
    /\ ~(raised # "" /\ StageNo(pc) <= StageNo("handle_solvation"))
    /\ Past("handle_solvation") => SolvationBlockWritten(calc0, self)
    /\ pc = "done" => SolvationInDocument(calc0, self.input_file)

SmdRefused ==
    /\ ~Past("handle_solvation")
    /\ raised # "" => raised = "UnimplementedError"
    /\ docs = <<>>

\* the claim as made, for the runs that reach handle_solvation only: every
\* SMD request on a density-functional level passes handle_solvation, every
\* other SMD request fails with UnimplementedError
C4_Original ==
    (runs = 1 /\ SmdRequest(calc0) /\ StageNo(pc) >= StageNo("handle_solvation")) =>
        IF NWChemTheoryLevel(calc0) = "dft" THEN SmdAccepted ELSE SmdRefused

RadiiAccepted(c) ==
    /\ c.solvation_radii \in {"", "default"}
    /\ ParseRadii(Split(c.custom_solvation_radii, ";"), <<>>).err = ""

\* C4: for an SMD request that reaches handle_solvation: on a
\* density-functional level, with the default radii policy and custom radii
\* that parse, handle_solvation returns and the additional block (and the
\* document, when one is made) holds the cosmo header, the solvent and
\* do_cosmo_smd; on any other level the run ends in handle_solvation with
\* UnimplementedError and no document.
C4_SmdOnlyWithDft ==
    (runs = 1 /\ SmdRequest(calc0) /\ StageNo(pc) >= StageNo("handle_solvation")) =>
        IF NWChemTheoryLevel(calc0) = "dft"
        THEN RadiiAccepted(calc0) => SmdAccepted
        ELSE pc = "handle_solvation" /\ SmdRefused

C4_Witness ==
    /\ SmdRequest(calc0) /\ NWChemTheoryLevel(calc0) = "dft"
    /\ calc0.custom_solvation_radii # ""
    /\ pc = "done"
    /\ SolvationInDocument(calc0, docs[1])

-----------------------------------------------------------------------------
(* C5 *)

\* the request without the overrides for elements the geometry does not hold
WithoutDeadOverrides(c) ==
    [c EXCEPT !.custom_basis_sets.items =
        SelectSeq(@, LAMBDA item : OccursInGeometry(item[1], c.xyz))]

HasDeadOverride(c) ==
    \E i \in 1..Len(c.custom_basis_sets.items) :
        ~OccursInGeometry(c.custom_basis_sets.items[i][1], c.xyz)

BasisOutcome(c) ==
    LET r == handle_basis_sets(c, NoObject) IN
    [err |-> r.err, has_basis_set |-> r.st.has_basis_set, basis_set |-> r.st.basis_set]

\* C5: what handle_basis_sets leaves (the basis set block, or the exception)
\* is what it leaves for the same request without the overrides for elements
\* absent from the geometry.
C5_DeadOverridesIgnored ==
    BasisSetsHandled =>
        [err |-> raised, has_basis_set |-> self.has_basis_set,
         basis_set |-> self.basis_set] = BasisOutcome(WithoutDeadOverrides(calc))

C5_Witness ==
    /\ pc = "done"
    /\ HasDeadOverride(calc)
    /\ WithoutDeadOverrides(calc).custom_basis_sets.items # <<>>
    /\ Contains(self.basis_set, " except H ")

-----------------------------------------------------------------------------
(* C6 *)

Blocks(st) == <<st.method_block, st.calculation_block, st.additional_block>>

\* C6: a second close_blocks changes nothing, and close_blocks leaves alone
\* every block that is empty or already holds a closing marker.
C6_CloseBlocksIdempotent ==
    [][ /\ (pc = "create_input_file" /\ pc' = "closed_twice") => self' = self
        /\ (pc = "close_blocks" /\ pc' = "create_input_file") =>
               \A i \in 1..3 :
                   (Blocks(self)[i] = "" \/ Contains(Blocks(self)[i], ClosingMarker))
                       => Blocks(self')[i] = Blocks(self)[i] ]_vars

C6_Witness ==
    /\ pc = "closed_twice"
    /\ self.method_block = "x end \n"
    /\ self.calculation_block = "end \nx"
    /\ self.additional_block = " end \n"

-----------------------------------------------------------------------------
(* C7 *)

NoConstraintRequest(c) == c.type = "CONSTR_OPT" /\ Len(c.constraints) = 0

\* the claim as made, for the runs that reach handle_solvation only: whatever
\* the other fields, the run fails with InvalidParameter
C7_Original ==
    (runs = 1 /\ NoConstraintRequest(calc0)
       /\ StageNo(pc) >= StageNo("handle_solvation")) =>
        /\ ~Past("handle_specifications")
        /\ raised # "" => raised = "InvalidParameter"

\* C7: a constrained optimisation without constraints never gets past
\* handle_specifications: the run ends there with InvalidParameter, unless an
\* earlier call has already ended it with its own error (handle_tasks with
\* KeyError for a multiplicity without a name, handle_solvation with
\* UnimplementedError, or with InvalidParameter for custom radii that do not
\* parse).
C7_NoConstraintsRaises ==
    (runs = 1 /\ NoConstraintRequest(calc0)) =>
        /\ ~Past("handle_specifications")
        /\ raised # "" =>
              \/ pc = "handle_specifications" /\ raised = "InvalidParameter"
              \/ pc = "handle_tasks" /\ raised = "KeyError"
                 /\ SOFTWARE_MULTIPLICITY(calc0.multiplicity) = ""
              \/ pc = "handle_solvation"
                 /\ raised \in {"UnimplementedError", "InvalidParameter"}
                 /\ handle_solvation(AliasedRequest(calc0), NoObject).err = raised

C7_Witness ==
    /\ NoConstraintRequest(calc0)
    /\ HasSolvent(calc0)
    /\ calc0.specifications # ""
    /\ FailedIn("handle_specifications")
    /\ raised = "InvalidParameter"

-----------------------------------------------------------------------------
(* C8 *)

\* C8: the request is as the caller built it, and two runs on it return the
\* same document.
C8_RequestUnchanged ==
    /\ calc.mem = calc0.mem
    /\ calc.theory_level = calc0.theory_level
    /\ Len(docs) = 2 => docs[1] = docs[2]

\* two runs completed and the second document says "mb mb"
C8_Witness ==
    /\ Len(docs) = 2
    /\ Contains(docs[1], "memory total 1000 mb\n")
    /\ Contains(docs[2], "memory total 1000 mb mb\n")

-----------------------------------------------------------------------------
(* C9 *)

\* C9: a run that raised returned no document and wrote no file.
C9_NoPartialOutput ==
    raised # "" => (docs = <<>> /\ files = {})

C9_Witness ==
    /\ FailedIn("handle_basis_sets")
    /\ files = {"calc_sol.parameters"}

-----------------------------------------------------------------------------
(* C10 *)

AnyStatement(c, set) ==
    LET stmts == StatementsOf(c) IN \E i \in 1..Len(stmts) : stmts[i] \in set

PathKeywordUniform(directives) ==
    (calc.type = "MEP" /\ Past("handle_specifications")) =>
        IF AnyStatement(calc, directives)
        THEN /\ Contains(self.tasks, "string")
             /\ ~Contains(self.tasks, "neb")
             /\ ~Contains(self.calculation_block, "neb")
             /\ self.calculation_block # "" =>
                    StartsWith(self.calculation_block, "\n string \n")
        ELSE /\ Contains(self.tasks, "neb")
             /\ ~Contains(self.tasks, "string")
             /\ self.calculation_block # "" =>
                    StartsWith(self.calculation_block, "\n neb \n")

\* the claim as made: the directives are "string", "fsm" and "freezing string"
C10_Original == PathKeywordUniform({"string", "fsm", "freezing string"})

\* C10: for a minimum-energy-path request, once handle_specifications has
\* returned: with one of the four directives of line 240 ("string", "fsm",
\* "freezing string", "freezing string sethod") anywhere in the
\* specification string, the tasks say "string" and neither the tasks nor
\* the calculation block say "neb"; with none of the four the tasks say
\* "neb", not "string", and so does a calculation block that was opened.
C10_PathKeywordUniform == PathKeywordUniform(StringDirectives)

C10_Witness ==
    /\ calc.type = "MEP"
    /\ calc.specifications = "neb(nbeads 10); FSM;fsm(neb)"
    /\ pc = "done"
    /\ StartsWith(self.calculation_block, "\n string \nnbeads 10 \nstring \n")

====
